---- MODULE Spec2Model ----
(***************************************************************************)
(* Two components of the repository:                                       *)
(*   - destination_vectara/indexer.py : VectaraIndexer, a REST client with *)
(*     a cached OAuth2 token (check / pre_sync / delete / index).          *)
(*   - airbyte_lib/caches/bases/sql.py : SQLCache, staging of batch files  *)
(*     into a temp table and its merge into the final table.               *)
(* The two share no state; each has its own specification over the         *)
(* module's variables:                                                     *)
(*   Spec          the indexer and the vector service                      *)
(*   SpecNormalize VectaraIndexer._normalize on a range of metadata dicts  *)
(*   SpecCache     SQLCache._finalize_batches as the source runs           *)
(*   SpecPipeline  _finalize_batches on a cache whose overridable loading  *)
(*                 and writing hooks run the statements of their bodies    *)
(*   SpecConcurrent two callers inside VectaraIndexer._request at once     *)
(***************************************************************************)
EXTENDS Integers, Sequences, FiniteSets, TLC

(***************************************************************************)
(* Bounds of the model.                                                    *)
(***************************************************************************)
\* the clock runs from 0 to MaxTime (seconds)
MaxTime == 2
\* number of operations the host invokes on one indexer
MaxOps == 2
\* number of chunks handed to one index() call
MaxChunks == 2
\* items of a list or dict among the metadata values
MaxItems == 2
\* rows of a staged file, and of the final table before a finalize
MaxRows == 2
\* batch handles handed to one _finalize_batches call (ids 1..MaxBatches)
MaxBatches == 2
\* _finalize_batches calls on one cache
MaxFinalizes == 1

(***************************************************************************)
(* Program constants.                                                      *)
(***************************************************************************)
\* indexer.py:99  "if self.jwt_token_expires_ts - current_ts <= 60"
RefreshMargin == 60

\* config.corpus_name, and a name the service-side filter of list-corpora
\* also lets through (line 41: the filter is not an equality)
CorpusName == "airbyte"
OtherName == "airbyte-old"
Names == {CorpusName, OtherName}

\* ids of the corpora and of the documents that exist before the indexer runs
CorpusIds == {1, 2}
DocIds == {1, 2}
Streams == {"s1", "s2"}
\* DestinationSyncMode
SyncModes == {"append", "overwrite"}

\* expires_in of a token response: at the margin, just above it, far above it
ExpiresInValues ==
  {RefreshMargin, RefreshMargin + 1, RefreshMargin + MaxTime + 1}

\* an attribute __init__ never assigns (jwt_token, jwt_token_expires_ts and
\* corpus_id are first assigned by _get_jwt_token and check, lines 25-29)
NoAttr == -1
\* access_token "" of a token response
EmptyToken == 0

SeqsUpTo(S, n) == UNION {[1..k -> S] : k \in 0..n}

(***************************************************************************)
(* Python values, tag first.  A str is a sequence of one-character         *)
(* strings; a float w.f has one fractional digit; a dict is the sequence   *)
(* of its <<key, value>> items in insertion order.                         *)
(***************************************************************************)
PyStr(s) == <<"str", s>>
PyInt(n) == <<"int", n>>
PyBool(b) == <<"bool", b>>
PyFloat(w, f) == <<"float", w, f>>
PyNone == <<"NoneType">>
PyList(items) == <<"list", items>>
PyDict(items) == <<"dict", items>>
TypeOf(v) == v[1]

Digits == <<"0", "1", "2", "3", "4", "5", "6", "7", "8", "9">>
IsDigit(c) == \E d \in 1..10 : Digits[d] = c
DigitValue(c) == (CHOOSE d \in 1..10 : Digits[d] = c) - 1

RECURSIVE NatChars(_)
NatChars(n) == IF n < 10 THEN <<Digits[n + 1]>>
               ELSE NatChars(n \div 10) \o <<Digits[(n % 10) + 1]>>
IntChars(n) == IF n < 0 THEN <<"-">> \o NatChars(-n) ELSE NatChars(n)

\* json.dumps of a str: quotes around it, '"' and '\' escaped with a backslash
RECURSIVE EscapeChars(_)
EscapeChars(s) ==
  IF s = <<>> THEN <<>>
  ELSE (IF Head(s) \in {"\"", "\\"} THEN <<"\\", Head(s)>> ELSE <<Head(s)>>)
       \o EscapeChars(Tail(s))
StrChars(s) == <<"\"">> \o EscapeChars(s) \o <<"\"">>

\* json.dumps(value), with its default separators ", " and ": "
RECURSIVE JsonDumps(_), DumpItems(_), DumpMembers(_)
JsonDumps(v) ==
  CASE TypeOf(v) = "str" -> StrChars(v[2])
    [] TypeOf(v) = "int" -> IntChars(v[2])
    [] TypeOf(v) = "bool" -> IF v[2] THEN <<"t", "r", "u", "e">>
                                      ELSE <<"f", "a", "l", "s", "e">>
    [] TypeOf(v) = "float" -> IntChars(v[2]) \o <<".">> \o NatChars(v[3])
    [] TypeOf(v) = "NoneType" -> <<"n", "u", "l", "l">>
    [] TypeOf(v) = "list" -> <<"[">> \o DumpItems(v[2]) \o <<"]">>
    [] TypeOf(v) = "dict" -> <<"{">> \o DumpMembers(v[2]) \o <<"}">>
DumpItems(items) ==
  IF items = <<>> THEN <<>>
  ELSE JsonDumps(Head(items))
       \o (IF Len(items) > 1 THEN <<",", " ">> \o DumpItems(Tail(items)) ELSE <<>>)
DumpMembers(items) ==
  IF items = <<>> THEN <<>>
  ELSE StrChars(Head(items)[1]) \o <<":", " ">> \o JsonDumps(Head(items)[2])
       \o (IF Len(items) > 1 THEN <<",", " ">> \o DumpMembers(Tail(items)) ELSE <<>>)

(***************************************************************************)
(* json.loads, the decoder the round trip of a normalized value is read    *)
(* with: a recursive-descent parser.  Each Parse operator returns          *)
(* <<value, position after it>>, or ParseError.                            *)
(***************************************************************************)
ParseError == <<<<"error">>, 0>>
Failed(r) == r[2] = 0
At(s, i) == IF i <= Len(s) THEN s[i] ELSE "EOF"

RECURSIVE SkipWs(_, _)
SkipWs(s, i) == IF At(s, i) = " " THEN SkipWs(s, i + 1) ELSE i

\* the characters of a string literal from position i (after the opening quote)
RECURSIVE ParseChars(_, _, _)
ParseChars(s, i, acc) ==
  CASE At(s, i) = "EOF" -> ParseError
    [] At(s, i) = "\"" -> <<acc, i + 1>>
    [] At(s, i) = "\\" ->
         IF At(s, i + 1) \in {"\"", "\\"}
         THEN ParseChars(s, i + 2, Append(acc, At(s, i + 1)))
         ELSE ParseError
    [] OTHER -> ParseChars(s, i + 1, Append(acc, At(s, i)))

RECURSIVE ParseNat(_, _, _)
ParseNat(s, i, acc) ==
  IF IsDigit(At(s, i)) THEN ParseNat(s, i + 1, acc * 10 + DigitValue(At(s, i)))
  ELSE <<acc, i>>

ParseNumber(s, i) ==
  LET neg == At(s, i) = "-"
      j == IF neg THEN i + 1 ELSE i
      w == ParseNat(s, j, 0)
  IN IF ~IsDigit(At(s, j)) THEN ParseError
     ELSE IF At(s, w[2]) = "."
     THEN IF IsDigit(At(s, w[2] + 1))
          THEN LET f == ParseNat(s, w[2] + 1, 0)
               IN <<PyFloat(IF neg THEN -w[1] ELSE w[1], f[1]), f[2]>>
          ELSE ParseError
     ELSE <<PyInt(IF neg THEN -w[1] ELSE w[1]), w[2]>>

Literal(s, i, word) ==
  /\ i + Len(word) - 1 <= Len(s)
  /\ SubSeq(s, i, i + Len(word) - 1) = word

RECURSIVE ParseValue(_, _), ParseItems(_, _, _), ParseMembers(_, _, _)
ParseValue(s, i0) ==
  LET i == SkipWs(s, i0) IN
  CASE At(s, i) = "\"" ->
         LET r == ParseChars(s, i + 1, <<>>)
         IN IF Failed(r) THEN ParseError ELSE <<PyStr(r[1]), r[2]>>
    [] At(s, i) = "[" ->
         IF At(s, SkipWs(s, i + 1)) = "]" THEN <<PyList(<<>>), SkipWs(s, i + 1) + 1>>
         ELSE ParseItems(s, i + 1, <<>>)
    [] At(s, i) = "{" ->
         IF At(s, SkipWs(s, i + 1)) = "}" THEN <<PyDict(<<>>), SkipWs(s, i + 1) + 1>>
         ELSE ParseMembers(s, i + 1, <<>>)
    [] Literal(s, i, <<"t", "r", "u", "e">>) -> <<PyBool(TRUE), i + 4>>
    [] Literal(s, i, <<"f", "a", "l", "s", "e">>) -> <<PyBool(FALSE), i + 5>>
    [] Literal(s, i, <<"n", "u", "l", "l">>) -> <<PyNone, i + 4>>
    [] At(s, i) = "-" \/ IsDigit(At(s, i)) -> ParseNumber(s, i)
    [] OTHER -> ParseError
ParseItems(s, i, acc) ==
  LET r == ParseValue(s, i) IN
  IF Failed(r) THEN ParseError
  ELSE LET j == SkipWs(s, r[2]) IN
       CASE At(s, j) = "," -> ParseItems(s, j + 1, Append(acc, r[1]))
         [] At(s, j) = "]" -> <<PyList(Append(acc, r[1])), j + 1>>
         [] OTHER -> ParseError
ParseMembers(s, i0, acc) ==
  LET i == SkipWs(s, i0) IN
  IF At(s, i) # "\"" THEN ParseError
  ELSE LET k == ParseChars(s, i + 1, <<>>) IN
       IF Failed(k) THEN ParseError
       ELSE LET c == SkipWs(s, k[2]) IN
            IF At(s, c) # ":" THEN ParseError
            ELSE LET r == ParseValue(s, c + 1) IN
                 IF Failed(r) THEN ParseError
                 ELSE LET j == SkipWs(s, r[2])
                          items == Append(acc, <<k[1], r[1]>>)
                      IN CASE At(s, j) = "," -> ParseMembers(s, j + 1, items)
                           [] At(s, j) = "}" -> <<PyDict(items), j + 1>>
                           [] OTHER -> ParseError

\* json.loads(text): the value, if the whole text is one value
JsonLoads(s) ==
  LET r == ParseValue(s, 1)
  IN IF Failed(r) \/ SkipWs(s, r[2]) # Len(s) + 1 THEN ParseError[1] ELSE r[1]

(***************************************************************************)
(* _normalize (lines 194-202).  A metadata dict is the sequence of its     *)
(* <<key, value>> items.                                                   *)
(***************************************************************************)
\* isinstance(value, (str, int, float, bool))
IsPrimitive(value) == TypeOf(value) \in {"str", "int", "float", "bool"}

\* a bug the claims about _normalize must notice: every value is JSON-encoded
NormalizeValueEncodeAll(value) == PyStr(JsonDumps(value))

\* lines 197-201: the value kept, or its JSON text
NormalizeValue(value) ==
  IF IsPrimitive(value) THEN value ELSE PyStr(JsonDumps(value))

Normalize(m) == [i \in 1..Len(m) |-> <<m[i][1], NormalizeValue(m[i][2])>>]

(***************************************************************************)
(* The metadata values of the model: what a record parsed from JSON holds. *)
(***************************************************************************)
StrValues == {<<>>, <<"a">>, <<"a", "\"", " ">>, <<"\\", "b">>}
Scalars ==
  {PyStr(s) : s \in StrValues} \cup {PyInt(n) : n \in {0, 12, -3}}
  \cup {PyBool(b) : b \in BOOLEAN} \cup {PyFloat(1, 5), PyNone}
DictKeys == {<<"k">>, <<"j", "\"">>}
Lists == {PyList(items) : items \in SeqsUpTo(Scalars, MaxItems)}
Dicts ==
  {PyDict(items) : items \in
     {it \in SeqsUpTo(DictKeys \X Scalars, MaxItems) :
        \A a, b \in 1..Len(it) : a # b => it[a][1] # it[b][1]}}
Nested ==
  {PyList(<<PyList(<<PyInt(12)>>), PyDict(<<<<<<"k">>, PyStr(<<"a">>)>>>>)>>),
   PyDict(<<<<<<"k">>, PyList(<<PyNone, PyStr(<<"\"">>)>>)>>>>)}
Values == Scalars \cup Lists \cup Dicts \cup Nested

\* a second item's values: one of each kind
FewValues == {PyStr(<<"a">>), PyInt(12), PyNone, PyList(<<PyBool(TRUE)>>)}
MetadataDicts ==
  {<<>>} \cup {<<<<"k1", v>>>> : v \in Values}
  \cup {<<<<"k1", v>>, <<"k2", w>>>> : v \in Values, w \in FewValues}

\* the chunks index() is handed: metadata and page_content
Chunks ==
  {[metadata |-> m, page_content |-> "text"] :
     m \in {<<<<"k1", PyStr(<<"a">>)>>>>, <<<<"k1", PyList(<<PyInt(12)>>)>>>>}}

VARIABLES
  \* ---- VectaraIndexer and the vector service
  now,                   \* datetime.datetime.now().timestamp()
  jwt_token,             \* self.jwt_token: NoAttr, EmptyToken or the n-th token issued
  jwt_token_expires_ts,  \* self.jwt_token_expires_ts
  corpus_id,             \* self.corpus_id
  corpora,               \* the service's corpora: a set of <<id, name>>
  documents,             \* the corpus's documents: a set of <<id, stream tag>>
  op,                    \* the operation the host is running
  pc,                    \* the position inside it
  endpoint,              \* _request's endpoint argument
  req,                   \* the latest _request: what it saw and what it sent
  response,              \* what _request returned to its caller
  calls,                 \* the API calls sent during the operation, in order
  ret,                   \* what the operation returned
  raised,                \* the exception that left the operation ("" for none)
  tokensIssued,          \* tokens the token endpoint has issued
  opCount,               \* operations started
  listed,                \* check: the list-corpora response it read
  created,               \* check: the corpusId create-corpus returned (0: none)
  corpus_id_before,      \* self.corpus_id when the operation started
  documents_before,      \* the corpus's documents when the operation started
  catalog,               \* pre_sync's argument: stream -> destination sync mode
  chunks,                \* index's argument
  \* ---- _normalize
  metadata,              \* its argument
  document_metadata,     \* its result (the local of _index_document, line 172)
  renormalized,          \* the result of normalizing the result
  npc,
  \* ---- SQLCache and the database
  tables,                \* the database: table name -> rows, for the tables that exist
  dedupe_mode,           \* config.dedupe_mode
  supports_merge_insert, \* the class attribute (line 59)
  batches,               \* _finalize_batches' argument: <<batch id, file>> in dict order
  cpc,                   \* the position inside _finalize_batches
  cerr,                  \* the exception that left it ("" for none)
  tables_before,         \* the database when _finalize_batches started
  temp_table_name,       \* its local
  created_temp,          \* whether this run created its temp table
  finalizes,             \* _finalize_batches calls started
  \* ---- concurrent callers of _request
  callers,               \* per caller: its position in _request and its locals
  overlap                \* whether two refreshes have been under way at once

tokenVars == <<jwt_token, jwt_token_expires_ts, tokensIssued>>
opVars == <<op, opCount, calls, ret, raised, req, response, listed, created,
            corpus_id_before, documents_before>>
ivars == <<now, tokenVars, corpus_id, corpora, documents, pc, endpoint, opVars,
           catalog, chunks>>
nvars == <<metadata, document_metadata, renormalized, npc>>
tvars == <<callers, overlap>>
cvars == <<tables, dedupe_mode, supports_merge_insert, batches, cpc, cerr,
           tables_before, temp_table_name, created_temp, finalizes>>
vars == <<ivars, nvars, cvars, tvars>>

(***************************************************************************)
(* Return values: None, or a string.                                       *)
(***************************************************************************)
RetNone == [none |-> TRUE, str |-> ""]
RetStr(s) == [none |-> FALSE, str |-> s]

\* airbyte_cdk's format_exception(e): str(e), a newline and the traceback
FormatException(e) == e \o "\n" \o "Traceback (most recent call last)"

\* a bug the claims about check must notice: the handler swallows the exception
CheckExceptPass(e) == RetNone

\* check's handler (lines 74-75): "except Exception as e: return format_exception(e)"
CheckExcept(e) == RetStr(FormatException(e))

\* a bug the claims about the refresh must notice: "<" for "<="
NeedsRefreshStrict(expires_ts, current_ts) == expires_ts - current_ts < RefreshMargin

\* line 99: "if self.jwt_token_expires_ts - current_ts <= 60"
NeedsRefresh(expires_ts, current_ts) == expires_ts - current_ts <= RefreshMargin

\* a bug the claims about check must notice: the name of a corpus is not compared
PossibleCorporaAnyName(corpus) == {c[1] : c \in corpus}

\* line 44: {corpus["id"]: corpus["name"] for corpus in ... if corpus["name"] ==
\* self.corpus_name}; the dict's keys
PossibleCorpora(corpus) == {c[1] : c \in {d \in corpus : d[2] = CorpusName}}

NoReq == [endpoint |-> "", remaining |-> 0, cached |-> NoAttr, refreshes |-> 0,
          fresh |-> NoAttr, sent |-> FALSE, token |-> NoAttr]
NoResponse == [kind |-> "none", corpus |-> {}, corpusId |-> 0]
NotListed == [returned |-> FALSE, corpus |-> {}]
NoCatalog == [s \in Streams |-> "append"]

Ready == pc \in {"idle", "done"}

\* a fresh corpus id of the service
NewCorpusId == 1 + Cardinality(corpora) + Cardinality(CorpusIds)

\* the threads that may be inside _request at once, and a caller outside it
Callers == {1, 2}

NoCaller == [pc |-> "idle", current_ts |-> 0, seen_expires |-> 0, refreshes |-> 0,
             request_time |-> 0, token |-> NoAttr, expires_in |-> 0,
             header |-> NoAttr, sent |-> FALSE, stored_at_send |-> NoAttr]
IdleCallers == [t \in Callers |-> NoCaller]

(***************************************************************************)
(* Init: a fresh indexer (no token, no corpus id) and a service that holds *)
(* any corpora and documents, each with an id of its own.                  *)
(***************************************************************************)
AsPairs(f) == {<<x, f[x]>> : x \in DOMAIN f}
CorporaStates == {AsPairs(f) : f \in UNION {[S -> Names] : S \in SUBSET CorpusIds}}
\* every document carries the tag of one stream
DocumentStates == {AsPairs(f) : f \in {g \in [DocIds -> Streams] : g[1] = "s1"}}

InitIndexer(c, d) ==
  /\ now = 0
  /\ jwt_token = NoAttr
  /\ jwt_token_expires_ts = NoAttr
  /\ corpus_id = NoAttr
  /\ corpora = c
  /\ documents = d
  /\ op = ""
  /\ pc = "idle"
  /\ endpoint = ""
  /\ req = NoReq
  /\ response = NoResponse
  /\ calls = <<>>
  /\ ret = RetNone
  /\ raised = ""
  /\ tokensIssued = 0
  /\ opCount = 0
  /\ listed = NotListed
  /\ created = 0
  /\ corpus_id_before = NoAttr
  /\ documents_before = d
  /\ catalog = NoCatalog
  /\ chunks = <<>>
  /\ callers = IdleCallers
  /\ overlap = FALSE

IdleNormalize ==
  /\ metadata = <<>>
  /\ document_metadata = <<>>
  /\ renormalized = <<>>
  /\ npc = "idle"

\* the host calls an operation: the per-operation record starts afresh
Begin(name) ==
  /\ Ready
  /\ opCount < MaxOps
  /\ opCount' = opCount + 1
  /\ op' = name
  /\ calls' = <<>>
  /\ ret' = RetNone
  /\ req' = NoReq
  /\ response' = NoResponse
  /\ listed' = NotListed
  /\ created' = 0
  /\ corpus_id_before' = corpus_id
  /\ documents_before' = documents
  /\ endpoint' = ""

\* time passes
Tick ==
  /\ now < MaxTime
  /\ now' = now + 1
  /\ UNCHANGED <<tokenVars, corpus_id, corpora, documents, pc, endpoint, opVars,
                 catalog, chunks, nvars, cvars, tvars>>

(***************************************************************************)
(* _get_jwt_token (lines 113-134).  The token endpoint answers with a      *)
(* token and its expires_in, with an empty access_token, with a body that  *)
(* has no access_token (KeyError at line 129), or not at all.              *)
(***************************************************************************)
TokenOutcomes == {"ok", "empty", "KeyError", "ConnectionError"}
TokenFailed(o) == o \in {"KeyError", "ConnectionError"}

GetJwtToken(o, expires_in) ==
  IF TokenFailed(o)
  THEN UNCHANGED tokenVars
  ELSE /\ jwt_token' = IF o = "ok" THEN tokensIssued + 1 ELSE EmptyToken
       /\ jwt_token_expires_ts' = now + expires_in
       /\ tokensIssued' = IF o = "ok" THEN tokensIssued + 1 ELSE tokensIssued

(***************************************************************************)
(* check (lines 31-75)                                                     *)
(***************************************************************************)
CheckStart ==
  /\ Begin("check")
  /\ pc' = "check_token"
  /\ raised' = ""
  /\ catalog' = NoCatalog
  /\ chunks' = <<>>
  /\ metadata' = <<>>
  /\ document_metadata' = <<>>
  /\ UNCHANGED <<now, tokenVars, corpus_id, corpora, documents, renormalized, npc,
                 cvars, tvars>>

\* lines 33-35, and the call of _request for list-corpora (37)
CheckGetJwtToken ==
  /\ pc = "check_token"
  /\ \E o \in TokenOutcomes, expires_in \in ExpiresInValues :
       /\ GetJwtToken(o, expires_in)
       /\ CASE o = "ok" ->
                 /\ pc' = "req_time"
                 /\ endpoint' = "list-corpora"
                 /\ UNCHANGED ret
            [] o = "empty" ->
                 /\ pc' = "done"
                 /\ ret' = RetStr("Unable to get JWT Token. Confirm your Client ID and Client Secret.")
                 /\ UNCHANGED endpoint
            [] OTHER ->
                 /\ pc' = "done"
                 /\ ret' = CheckExcept(o)
                 /\ UNCHANGED endpoint
  /\ UNCHANGED <<now, corpus_id, corpora, documents, op, opCount, calls, raised, req,
                 response, listed, created, corpus_id_before, documents_before,
                 catalog, chunks, nvars, cvars, tvars>>

(***************************************************************************)
(* _request (lines 92-111), in three steps: the clock is read and compared *)
(* (98-99), the token is refreshed (100), the call is sent (102-111).      *)
(* An exception leaves _request; the only caller that gets as far as       *)
(* _request is check, whose handler turns it into a string.                *)
(***************************************************************************)
RequestTime ==
  /\ pc = "req_time"
  /\ req' = [NoReq EXCEPT !.endpoint = endpoint,
                          !.remaining = jwt_token_expires_ts - now,
                          !.cached = jwt_token]
  /\ pc' = IF NeedsRefresh(jwt_token_expires_ts, now) THEN "req_refresh" ELSE "req_send"
  /\ UNCHANGED <<now, tokenVars, corpus_id, corpora, documents, endpoint, op, opCount,
                 calls, ret, raised, response, listed, created, corpus_id_before,
                 documents_before, catalog, chunks, nvars, cvars, tvars>>

RequestRefresh ==
  /\ pc = "req_refresh"
  /\ \E o \in TokenOutcomes, expires_in \in ExpiresInValues :
       /\ GetJwtToken(o, expires_in)
       /\ req' = [req EXCEPT !.refreshes = @ + 1, !.fresh = jwt_token']
       /\ IF TokenFailed(o)
          THEN /\ pc' = "done"
               /\ ret' = CheckExcept(o)
          ELSE /\ pc' = "req_send"
               /\ UNCHANGED ret
  /\ UNCHANGED <<now, corpus_id, corpora, documents, endpoint, op, opCount, calls,
                 raised, response, listed, created, corpus_id_before,
                 documents_before, catalog, chunks, nvars, cvars, tvars>>

\* what the service answers to a call that carries `token`: a body, a body
\* without the key its reader wants, an error status (raise_for_status), nothing
ResponseOutcomes(token) ==
  IF token = EmptyToken THEN {"HTTPError", "ConnectionError"}
  ELSE {"ok", "bad", "HTTPError", "ConnectionError"}

RequestSend ==
  /\ pc = "req_send"
  /\ calls' = Append(calls, [endpoint |-> endpoint, token |-> jwt_token])
  /\ req' = [req EXCEPT !.sent = TRUE, !.token = jwt_token]
  /\ \E o \in ResponseOutcomes(jwt_token) :
       CASE o = "ok" /\ endpoint = "list-corpora" ->
              /\ response' = [kind |-> "ok", corpus |-> corpora, corpusId |-> 0]
              /\ pc' = "check_listed"
              /\ UNCHANGED <<corpora, ret>>
         [] o = "ok" /\ endpoint = "create-corpus" ->
              /\ corpora' = corpora \cup {<<NewCorpusId, CorpusName>>}
              /\ response' = [kind |-> "ok", corpus |-> {}, corpusId |-> NewCorpusId]
              /\ pc' = "check_created"
              /\ UNCHANGED ret
         [] o = "bad" ->
              /\ response' = [kind |-> "bad", corpus |-> {}, corpusId |-> 0]
              /\ pc' = IF endpoint = "list-corpora" THEN "check_listed" ELSE "check_created"
              /\ UNCHANGED <<corpora, ret>>
         [] OTHER ->
              /\ pc' = "done"
              /\ ret' = CheckExcept(o)
              /\ UNCHANGED <<corpora, response>>
  /\ UNCHANGED <<now, tokenVars, corpus_id, documents, endpoint, op, opCount, raised,
                 listed, created, corpus_id_before, documents_before, catalog, chunks,
                 nvars, cvars, tvars>>

\* lines 44-49: the corpora of the response that bear the configured name
CheckListed ==
  /\ pc = "check_listed"
  /\ IF response.kind = "bad"
     THEN /\ pc' = "done"
          /\ ret' = CheckExcept("KeyError")
          /\ UNCHANGED <<corpus_id, endpoint, listed>>
     ELSE /\ listed' = [returned |-> TRUE, corpus |-> response.corpus]
          /\ LET possible_corpora_ids == PossibleCorpora(response.corpus) IN
             IF Cardinality(possible_corpora_ids) > 1
             THEN /\ pc' = "done"
                  /\ ret' = RetStr("Multiple Corpora exist with name " \o CorpusName)
                  /\ UNCHANGED <<corpus_id, endpoint>>
             ELSE IF Cardinality(possible_corpora_ids) = 1
             THEN /\ pc' = "done"
                  /\ corpus_id' = CHOOSE c \in possible_corpora_ids : TRUE
                  /\ UNCHANGED <<ret, endpoint>>
             ELSE /\ pc' = "req_time"
                  /\ endpoint' = "create-corpus"
                  /\ UNCHANGED <<ret, corpus_id>>
  /\ UNCHANGED <<now, tokenVars, corpora, documents, op, opCount, calls, raised, req,
                 response, created, corpus_id_before, documents_before, catalog,
                 chunks, nvars, cvars, tvars>>

\* line 72
CheckCreated ==
  /\ pc = "check_created"
  /\ pc' = "done"
  /\ IF response.kind = "bad"
     THEN /\ ret' = CheckExcept("KeyError")
          /\ UNCHANGED <<corpus_id, created>>
     ELSE /\ corpus_id' = response.corpusId
          /\ created' = response.corpusId
          /\ UNCHANGED ret
  /\ UNCHANGED <<now, tokenVars, corpora, documents, endpoint, op, opCount, calls,
                 raised, req, response, listed, corpus_id_before, documents_before,
                 catalog, chunks, nvars, cvars, tvars>>

(***************************************************************************)
(* pre_sync (77-82), delete (84-86), index (88-90) and _index_document     *)
(* (170-192).                                                              *)
(*   pre_sync and delete call _delete_doc_by_metadata(field_name=...,      *)
(*   field_values=...), whose parameters are metadata_field and            *)
(*   metadata_field_value: the call raises TypeError before the helper's   *)
(*   first statement.                                                      *)
(*   _index_document builds its request body before it calls _request: it  *)
(*   reads self.corpus_id (AttributeError when check has not assigned it)  *)
(*   and then evaluates "document": { {...} }, a set display whose only    *)
(*   element is a dict: TypeError, unhashable type.                        *)
(***************************************************************************)
StreamsToOverwrite(cat) == {s \in Streams : cat[s] = "overwrite"}

PreSync ==
  /\ Begin("pre_sync")
  /\ \E cat \in [Streams -> SyncModes] :
       /\ catalog' = cat
       /\ raised' = IF StreamsToOverwrite(cat) # {} THEN "TypeError" ELSE ""
  /\ pc' = "done"
  /\ chunks' = <<>>
  /\ metadata' = <<>>
  /\ document_metadata' = <<>>
  /\ UNCHANGED <<now, tokenVars, corpus_id, corpora, documents, renormalized, npc,
                 cvars, tvars>>

Delete ==
  /\ Begin("delete")
  /\ \E delete_ids \in SUBSET {"r1", "r2"} :
       raised' = IF Cardinality(delete_ids) > 0 THEN "TypeError" ELSE ""
  /\ pc' = "done"
  /\ catalog' = NoCatalog
  /\ chunks' = <<>>
  /\ metadata' = <<>>
  /\ document_metadata' = <<>>
  /\ UNCHANGED <<now, tokenVars, corpus_id, corpora, documents, renormalized, npc,
                 cvars, tvars>>

\* lines 173-191: the exception the evaluation of the request body ends with
IndexDocumentBody == IF corpus_id = NoAttr THEN "AttributeError" ELSE "TypeError"

Index ==
  /\ Begin("index")
  /\ \E document_chunks \in SeqsUpTo(Chunks, MaxChunks) :
       /\ chunks' = document_chunks
       /\ IF document_chunks = <<>>
          THEN /\ raised' = ""
               /\ metadata' = <<>>
               /\ document_metadata' = <<>>
          ELSE \* the first chunk: line 172, then the request body
               /\ metadata' = document_chunks[1].metadata
               /\ document_metadata' = Normalize(document_chunks[1].metadata)
               /\ raised' = IndexDocumentBody
  /\ pc' = "done"
  /\ catalog' = NoCatalog
  /\ UNCHANGED <<now, tokenVars, corpus_id, corpora, documents, renormalized, npc,
                 cvars, tvars>>

(***************************************************************************)
(* SQLCache (sql.py).  One stream; a row is <<key, value>>: the column a   *)
(* primary key would name, and a non-key column.  A table holds a sequence *)
(* of rows; a staged (parquet) file holds a sequence of rows.              *)
(***************************************************************************)
StreamName == "users"
Rows == {1, 2} \X {10, 20}
Files == SeqsUpTo(Rows, MaxRows)
DedupeModes == {"append", "replace"}

\* batches: dict[str, BatchHandle], in insertion order, the ids distinct
BatchInputs ==
  {bs \in SeqsUpTo((1..MaxBatches) \X Files, MaxBatches) :
     \A a, b \in 1..Len(bs) : a # b => bs[a][1] # bs[b][1]}

\* get_sql_table_name and _get_temp_table_name (84-91, 132-139), for names
\* that _normalize_table_name leaves as they are
FinalTableName == StreamName
TempTableName(batch_id) == StreamName \o "_" \o ToString(batch_id)

NoTables == [n \in {} |-> <<>>]
TableExists(t, name) == name \in DOMAIN t
WithTable(t, name, rows) ==
  [n \in DOMAIN t \cup {name} |-> IF n = name THEN rows ELSE t[n]]
WithoutTable(t, name) == [n \in DOMAIN t \ {name} |-> t[n]]

\* line 245: files = [batch_handle for batch_handle in batches.values()]
BatchFiles(bs) == [i \in 1..Len(bs) |-> bs[i][2]]
\* line 246: max(batches.keys())
MaxBatchId(bs) == CHOOSE m \in {bs[i][1] : i \in 1..Len(bs)} :
                    \A i \in 1..Len(bs) : bs[i][1] <= m

\* lines 281-289: each file is written with if_exists="replace": the table
\* holds the rows of the file written last
RECURSIVE ToSqlReplaceAll(_, _)
ToSqlReplaceAll(rows, files) ==
  IF files = <<>> THEN rows ELSE ToSqlReplaceAll(Head(files), Tail(files))

\* lines 317-327: INSERT INTO final (...) SELECT ... FROM temp
InsertSelect(t, temp, final) == WithTable(t, final, t[final] \o t[temp])

\* lines 329-334
GetPrimaryKeys == <<>>

InitCache ==
  /\ tables \in {NoTables} \cup {WithTable(NoTables, FinalTableName, rows) : rows \in Files}
  /\ dedupe_mode \in DedupeModes
  /\ supports_merge_insert \in BOOLEAN
  /\ batches = <<>>
  /\ cpc = "idle"
  /\ cerr = ""
  /\ tables_before = tables
  /\ temp_table_name = ""
  /\ created_temp = FALSE
  /\ finalizes = 0

IdleCache ==
  /\ tables = NoTables
  /\ dedupe_mode = "append"
  /\ supports_merge_insert = FALSE
  /\ batches = <<>>
  /\ cpc = "idle"
  /\ cerr = ""
  /\ tables_before = NoTables
  /\ temp_table_name = ""
  /\ created_temp = FALSE
  /\ finalizes = 0

\* _finalize_batches, lines 245-250: max() of no keys raises ValueError
FinalizeBatches ==
  /\ cpc \in {"idle", "done"}
  /\ finalizes < MaxFinalizes
  /\ finalizes' = finalizes + 1
  /\ tables_before' = tables
  /\ created_temp' = FALSE
  /\ \E bs \in BatchInputs :
       /\ batches' = bs
       /\ IF bs = <<>>
          THEN /\ cerr' = "ValueError"
               /\ cpc' = "done"
               /\ temp_table_name' = ""
          ELSE /\ cerr' = ""
               /\ cpc' = "write_files"
               /\ temp_table_name' = TempTableName(MaxBatchId(bs))
  /\ UNCHANGED <<tables, dedupe_mode, supports_merge_insert, ivars, nvars, tvars>>

(***************************************************************************)
(* The source as it runs (SpecCache).  _write_files_to_new_table's first   *)
(* statement, line 280, is self._create_table_for_loading(table_name): the *)
(* method takes (stream_name, batch_id), so the call raises TypeError      *)
(* before any statement reaches the database, and _finalize_batches ends   *)
(* there.                                                                  *)
(***************************************************************************)
WriteFilesToNewTable ==
  /\ cpc = "write_files"
  /\ cerr' = "TypeError"
  /\ cpc' = "done"
  /\ UNCHANGED <<tables, dedupe_mode, supports_merge_insert, batches, tables_before,
                 temp_table_name, created_temp, finalizes, ivars, nvars, tvars>>

(***************************************************************************)
(* _finalize_batches on a dialect cache (SpecPipeline).  The methods the   *)
(* source marks @final, _finalize_batches and                              *)
(* _write_temp_table_to_final_table, run as written.  The hooks a subclass *)
(* may override (_write_files_to_new_table, "can be overridden by          *)
(* subclasses", lines 277-278; _append_temp_table_to_final_table;          *)
(* _merge_temp_table_to_final_table, lines 344-345) run the statements of  *)
(* their bodies in the source, called with the arguments their callers     *)
(* hold.                                                                   *)
(***************************************************************************)
\* lines 251, 270-289: CREATE TABLE temp, then every file written with replace
WriteFilesToNewTableBound ==
  /\ cpc = "write_files"
  /\ IF TableExists(tables, temp_table_name)
     THEN \* CREATE TABLE of a table that exists
          /\ cerr' = "ProgrammingError"
          /\ cpc' = "done"
          /\ UNCHANGED <<tables, created_temp>>
     ELSE /\ tables' = WithTable(tables, temp_table_name,
                                 ToSqlReplaceAll(<<>>, BatchFiles(batches)))
          /\ created_temp' = TRUE
          /\ cpc' = "ensure_final"
          /\ UNCHANGED cerr
  /\ UNCHANGED <<dedupe_mode, supports_merge_insert, batches, tables_before,
                 temp_table_name, finalizes, ivars, nvars, tvars>>

\* lines 252-254, 157-178
EnsureFinalTableExistsBound ==
  /\ cpc = "ensure_final"
  /\ tables' = IF TableExists(tables, FinalTableName) THEN tables
               ELSE WithTable(tables, FinalTableName, <<>>)
  /\ cpc' = "write_final"
  /\ UNCHANGED <<dedupe_mode, supports_merge_insert, batches, cerr, tables_before,
                 temp_table_name, created_temp, finalizes, ivars, nvars, tvars>>

\* lines 255, 291-307.  The MERGE statement of lines 336-375 is built from
\* _get_primary_keys, which is empty: its ON clause is empty and the database
\* rejects the statement.  The INSERT of the append path runs in a transaction
\* of its own, which the database may fail.
WriteTempTableToFinalTableBound ==
  /\ cpc = "write_final"
  /\ IF dedupe_mode = "replace"
     THEN /\ cerr' = IF ~supports_merge_insert THEN "NotImplementedError"
                     ELSE IF GetPrimaryKeys = <<>> THEN "ProgrammingError" ELSE ""
          /\ cpc' = "done"
          /\ UNCHANGED tables
     ELSE \E ok \in BOOLEAN :
            IF ok
            THEN /\ tables' = InsertSelect(tables, temp_table_name, FinalTableName)
                 /\ cpc' = "drop"
                 /\ UNCHANGED cerr
            ELSE /\ cerr' = "OperationalError"
                 /\ cpc' = "done"
                 /\ UNCHANGED tables
  /\ UNCHANGED <<dedupe_mode, supports_merge_insert, batches, tables_before,
                 temp_table_name, created_temp, finalizes, ivars, nvars, tvars>>

\* lines 256, 258-268
DropTempTableBound ==
  /\ cpc = "drop"
  /\ tables' = WithoutTable(tables, temp_table_name)
  /\ cpc' = "done"
  /\ UNCHANGED <<dedupe_mode, supports_merge_insert, batches, cerr, tables_before,
                 temp_table_name, created_temp, finalizes, ivars, nvars, tvars>>

(***************************************************************************)
(* _normalize applied to a range of metadata dicts (SpecNormalize)         *)
(***************************************************************************)
NormalizeCall ==
  /\ npc = "start"
  /\ document_metadata' = Normalize(metadata)
  /\ npc' = "normalized"
  /\ UNCHANGED <<metadata, renormalized, ivars, cvars, tvars>>

NormalizeAgain ==
  /\ npc = "normalized"
  /\ renormalized' = Normalize(document_metadata)
  /\ npc' = "done"
  /\ UNCHANGED <<metadata, document_metadata, ivars, cvars, tvars>>

(***************************************************************************)
(* Two callers inside _request on one indexer (SpecConcurrent).  The       *)
(* indexer holds a token fetched at time 0; each caller runs _request      *)
(* once, a statement at a time: the clock is read (98), the expiry is      *)
(* read and compared (99), _get_jwt_token asks for a token (125-130),      *)
(* stores it (132) and its expiry (133), the headers are built from        *)
(* self.jwt_token (102-107), the call is sent (109-111).  The steps of the *)
(* two callers interleave freely.                                          *)
(***************************************************************************)
\* the positions between the comparison of line 99 and the store of line 133
Refreshing(t) == callers[t].pc \in {"token_request", "store_token", "store_expires"}

\* a lock around lines 98-111: a caller enters only when no other is inside
RequestEntryLocked(t) ==
  \A u \in Callers \ {t} : callers[u].pc \in {"idle", "done", "raised"}

\* lines 92-98: _request acquires nothing before it reads the clock
RequestEntry(t) == TRUE

\* line 98: current_ts = datetime.datetime.now().timestamp()
CallerClock(t) ==
  /\ callers[t].pc = "idle"
  /\ RequestEntry(t)
  /\ callers' = [callers EXCEPT ![t].pc = "compare", ![t].current_ts = now]
  /\ UNCHANGED <<ivars, nvars, cvars, overlap>>

\* line 99: if self.jwt_token_expires_ts - current_ts <= 60
CallerCompare(t) ==
  /\ callers[t].pc = "compare"
  /\ LET refresh == NeedsRefresh(jwt_token_expires_ts, callers[t].current_ts) IN
       /\ callers' = [callers EXCEPT
                        ![t].seen_expires = jwt_token_expires_ts,
                        ![t].pc = IF refresh THEN "token_request" ELSE "headers"]
       /\ overlap' = (overlap \/ (refresh /\ \E u \in Callers \ {t} : Refreshing(u)))
  /\ UNCHANGED <<ivars, nvars, cvars>>

\* lines 100, 125-130: the token endpoint is asked; token and expires_in are
\* locals of _get_jwt_token; an exception leaves _request
CallerTokenRequest(t) ==
  /\ callers[t].pc = "token_request"
  /\ \E o \in TokenOutcomes, expires_in \in ExpiresInValues :
       IF TokenFailed(o)
       THEN /\ callers' = [callers EXCEPT ![t].pc = "raised", ![t].refreshes = @ + 1]
            /\ UNCHANGED tokensIssued
       ELSE /\ tokensIssued' = IF o = "ok" THEN tokensIssued + 1 ELSE tokensIssued
            /\ callers' = [callers EXCEPT
                             ![t].pc = "store_token",
                             ![t].refreshes = @ + 1,
                             ![t].request_time = now,
                             ![t].token = IF o = "ok" THEN tokensIssued + 1 ELSE EmptyToken,
                             ![t].expires_in = expires_in]
  /\ UNCHANGED <<now, jwt_token, jwt_token_expires_ts, corpus_id, corpora, documents,
                 pc, endpoint, opVars, catalog, chunks, nvars, cvars, overlap>>

\* line 132: self.jwt_token = token
CallerStoreToken(t) ==
  /\ callers[t].pc = "store_token"
  /\ jwt_token' = callers[t].token
  /\ callers' = [callers EXCEPT ![t].pc = "store_expires"]
  /\ UNCHANGED <<now, jwt_token_expires_ts, tokensIssued, corpus_id, corpora,
                 documents, pc, endpoint, opVars, catalog, chunks, nvars, cvars,
                 overlap>>

\* line 133: self.jwt_token_expires_ts = expires_in
CallerStoreExpires(t) ==
  /\ callers[t].pc = "store_expires"
  /\ jwt_token_expires_ts' = callers[t].request_time + callers[t].expires_in
  /\ callers' = [callers EXCEPT ![t].pc = "headers"]
  /\ UNCHANGED <<now, jwt_token, tokensIssued, corpus_id, corpora, documents, pc,
                 endpoint, opVars, catalog, chunks, nvars, cvars, overlap>>

\* lines 102-107: "Authorization": f"Bearer {self.jwt_token}"
CallerHeaders(t) ==
  /\ callers[t].pc = "headers"
  /\ callers' = [callers EXCEPT ![t].pc = "send", ![t].header = jwt_token]
  /\ UNCHANGED <<ivars, nvars, cvars, overlap>>

\* lines 109-111: the call leaves with the headers built before
CallerSend(t) ==
  /\ callers[t].pc = "send"
  /\ callers' = [callers EXCEPT ![t].pc = "done", ![t].sent = TRUE,
                                ![t].stored_at_send = jwt_token]
  /\ UNCHANGED <<ivars, nvars, cvars, overlap>>

(***************************************************************************)
(* The specifications                                                      *)
(***************************************************************************)
Init ==
  /\ \E c \in CorporaStates, d \in DocumentStates : InitIndexer(c, d)
  /\ IdleNormalize
  /\ IdleCache

Next ==
  \/ Tick
  \/ CheckStart
  \/ CheckGetJwtToken
  \/ RequestTime
  \/ RequestRefresh
  \/ RequestSend
  \/ CheckListed
  \/ CheckCreated
  \/ PreSync
  \/ Delete
  \/ Index

Spec == Init /\ [][Next]_vars

InitNormalize ==
  /\ InitIndexer({}, {})
  /\ IdleCache
  /\ metadata \in MetadataDicts
  /\ document_metadata = <<>>
  /\ renormalized = <<>>
  /\ npc = "start"

NextNormalize == NormalizeCall \/ NormalizeAgain

SpecNormalize == InitNormalize /\ [][NextNormalize]_vars

InitSql ==
  /\ InitIndexer({}, {})
  /\ IdleNormalize
  /\ InitCache

NextCache == FinalizeBatches \/ WriteFilesToNewTable

SpecCache == InitSql /\ [][NextCache]_vars

NextPipeline ==
  \/ FinalizeBatches
  \/ WriteFilesToNewTableBound
  \/ EnsureFinalTableExistsBound
  \/ WriteTempTableToFinalTableBound
  \/ DropTempTableBound

SpecPipeline == InitSql /\ [][NextPipeline]_vars

\* the indexer after a token fetch at time 0 (lines 132-133), no caller inside
InitConcurrent ==
  /\ now = 0
  /\ jwt_token = 1
  /\ tokensIssued = 1
  /\ jwt_token_expires_ts \in ExpiresInValues
  /\ corpus_id = NoAttr
  /\ corpora = {}
  /\ documents = {}
  /\ op = ""
  /\ pc = "idle"
  /\ endpoint = ""
  /\ req = NoReq
  /\ response = NoResponse
  /\ calls = <<>>
  /\ ret = RetNone
  /\ raised = ""
  /\ opCount = 0
  /\ listed = NotListed
  /\ created = 0
  /\ corpus_id_before = NoAttr
  /\ documents_before = {}
  /\ catalog = NoCatalog
  /\ chunks = <<>>
  /\ callers = IdleCallers
  /\ overlap = FALSE
  /\ IdleNormalize
  /\ IdleCache

NextConcurrent ==
  \/ Tick
  \/ \E t \in Callers :
       \/ CallerClock(t)
       \/ CallerCompare(t)
       \/ CallerTokenRequest(t)
       \/ CallerStoreToken(t)
       \/ CallerStoreExpires(t)
       \/ CallerHeaders(t)
       \/ CallerSend(t)

SpecConcurrent == InitConcurrent /\ [][NextConcurrent]_vars

(***************************************************************************)
(* Properties of check (specification Spec)                                *)
(***************************************************************************)

\* C1 (as stated): when check has read a list-corpora response with n corpora
\* of the configured name, then n > 1: it returns the "Multiple Corpora exist"
\* error, sends no create-corpus call and leaves corpus_id alone; n = 1: it
\* sets corpus_id to that corpus's id and sends no create-corpus call; n = 0:
\* it sends exactly one create-corpus call and sets corpus_id to the corpusId
\* that call returned.
C1_CheckOutcomes ==
  (pc = "done" /\ op = "check" /\ listed.returned) =>
    LET matches == {c \in listed.corpus : c[2] = CorpusName}
        n == Cardinality(matches)
        creates == Cardinality({i \in 1..Len(calls) : calls[i].endpoint = "create-corpus"})
    IN /\ n > 1 => /\ ret = RetStr("Multiple Corpora exist with name " \o CorpusName)
                   /\ creates = 0
                   /\ corpus_id = corpus_id_before
       /\ n = 1 => /\ \E c \in matches : corpus_id = c[1]
                   /\ creates = 0
       /\ n = 0 => /\ creates = 1
                   /\ created # 0
                   /\ corpus_id = created

\* C1 (amended): as C1 for n > 1 and n = 1, where check also returns None when
\* it binds; for n = 0 check sends at most one create-corpus call (none when
\* the token refresh before it fails), and either that call returned a
\* corpusId, corpus_id is set to it and check returns None, or the call failed,
\* check returns an error string and corpus_id is left as it was.
C1_CheckOutcomesAmended ==
  (pc = "done" /\ op = "check" /\ listed.returned) =>
    LET matches == {c \in listed.corpus : c[2] = CorpusName}
        n == Cardinality(matches)
        creates == Cardinality({i \in 1..Len(calls) : calls[i].endpoint = "create-corpus"})
    IN /\ n > 1 => /\ ret = RetStr("Multiple Corpora exist with name " \o CorpusName)
                   /\ creates = 0
                   /\ corpus_id = corpus_id_before
       /\ n = 1 => /\ \E c \in matches : corpus_id = c[1]
                   /\ creates = 0
                   /\ ret = RetNone
       /\ n = 0 => /\ creates <= 1
                   /\ IF created # 0
                      THEN /\ creates = 1
                           /\ corpus_id = created
                           /\ <<created, CorpusName>> \in corpora
                           /\ ret = RetNone
                      ELSE /\ ~ret.none
                           /\ corpus_id = corpus_id_before

\* C1 (witness): a check that found no corpus of the configured name among the
\* corpora listed, sent one create-corpus call and bound to the id it returned.
C1_Witness ==
  /\ pc = "done" /\ op = "check" /\ listed.returned
  /\ listed.corpus # {}
  /\ {c \in listed.corpus : c[2] = CorpusName} = {}
  /\ Len(calls) = 2 /\ calls[2].endpoint = "create-corpus"
  /\ created # 0 /\ corpus_id = created

\* C2 (as stated): a _request whose call was sent refreshed the token exactly
\* once, and sent the new token, if the remaining validity it computed was
\* under 60 s; it refreshed nothing and sent the cached token if the remaining
\* validity was 60 s or more.
C2_RefreshUnderMargin ==
  req.sent =>
    IF req.remaining < RefreshMargin
    THEN req.refreshes = 1 /\ req.token = req.fresh
    ELSE req.refreshes = 0 /\ req.token = req.cached

\* C2 (amended): a _request refreshes the token at most once, and only when
\* the remaining validity it computed is 60 s or less; its call, once sent,
\* carries the refreshed token in that case (exactly one refresh came before
\* it) and the cached token when more than 60 s remained (no refresh).
C2_RefreshAtMargin ==
  /\ req.refreshes <= 1
  /\ req.refreshes = 1 => req.endpoint # "" /\ req.remaining <= RefreshMargin
  /\ req.sent =>
       IF req.remaining <= RefreshMargin
       THEN req.refreshes = 1 /\ req.token = req.fresh /\ req.token # req.cached
       ELSE req.refreshes = 0 /\ req.token = req.cached

\* C2 (witness): a call sent by a _request that found exactly 60 s of validity
\* left, after one refresh and with the refreshed token.
C2_Witness ==
  /\ req.sent
  /\ req.remaining = RefreshMargin
  /\ req.refreshes = 1
  /\ req.token = req.fresh

\* C9: check never raises; when it returns None, corpus_id is set, to the id
\* of the listed corpus of the configured name or to the corpusId it created;
\* when the token fetch, the list-corpora call or the create-corpus call
\* failed, it returns a non-empty string.
C9_CheckNeverRaises ==
  (pc = "done" /\ op = "check") =>
    /\ raised = ""
    /\ ret.none =>
         /\ listed.returned
         /\ corpus_id # NoAttr
         /\ \/ created # 0 /\ corpus_id = created
            \/ corpus_id \in PossibleCorpora(listed.corpus)
    /\ ~ret.none => ret.str # ""
    /\ ~listed.returned => ~ret.none
    /\ (listed.returned /\ PossibleCorpora(listed.corpus) = {} /\ created = 0) => ~ret.none

\* C9 (witness): a check whose create-corpus call failed: it returned a string
\* and raised nothing.
C9_Witness ==
  /\ pc = "done" /\ op = "check"
  /\ Len(calls) = 2 /\ calls[2].endpoint = "create-corpus"
  /\ created = 0
  /\ ~ret.none /\ ret.str # ""
  /\ raised = ""

(***************************************************************************)
(* Properties of pre_sync and index (specification Spec)                   *)
(***************************************************************************)

\* C7: pre_sync returns, and then no document tagged with a stream whose sync
\* mode is overwrite is left in the corpus, and every document tagged with
\* another stream is still there.
C7_PreSyncDeletesOverwriteStreams ==
  (pc = "done" /\ op = "pre_sync") =>
    /\ raised = ""
    /\ \A d \in documents : catalog[d[2]] # "overwrite"
    /\ \A d \in documents_before : catalog[d[2]] # "overwrite" => d \in documents

\* C7 (witness): a pre_sync for a catalog with an overwrite stream ended with
\* TypeError, a document of that stream still in the corpus, no call sent.
C7_Witness ==
  /\ pc = "done" /\ op = "pre_sync"
  /\ raised = "TypeError"
  /\ calls = <<>>
  /\ \E d \in documents : catalog[d[2]] = "overwrite"

\* C8: index sends one call to the index endpoint per chunk; it ends without
\* error when it has sent them all, and an error that leaves it is the
\* assertion on the status of a response to a call it sent.
C8_IndexOneCallPerChunk ==
  (pc = "done" /\ op = "index") =>
    LET sent == Cardinality({i \in 1..Len(calls) : calls[i].endpoint = "index"})
    IN /\ raised = "" => sent = Len(chunks)
       /\ raised # "" => raised = "AssertionError" /\ sent >= 1 /\ sent <= Len(chunks)

\* C8 (witness): an index of two chunks, after a check that bound a corpus,
\* ended with TypeError before any call was sent.
C8_Witness ==
  /\ pc = "done" /\ op = "index"
  /\ Len(chunks) = 2
  /\ corpus_id # NoAttr
  /\ raised = "TypeError"
  /\ calls = <<>>

(***************************************************************************)
(* Properties of _normalize (specification SpecNormalize)                  *)
(***************************************************************************)

C3_AppendFinalize ==
  (/\ cpc = "done" /\ dedupe_mode = "append" /\ batches # <<>>
   /\ (TableExists(tables_before, FinalTableName) => tables_before[FinalTableName] = <<>>)) =>
    /\ cerr = ""
    /\ TableExists(tables, FinalTableName)
    /\ \A r \in Rows :
         Cardinality({i \in 1..Len(tables[FinalTableName]) : tables[FinalTableName][i] = r})
         = Cardinality({p \in (1..Len(batches)) \X (1..MaxRows + 1) :
                          /\ p[2] <= Len(batches[p[1]][2])
                          /\ batches[p[1]][2][p[2]] = r})
    /\ ~TableExists(tables, temp_table_name)

\* C3 (witness): an append-mode finalize of two staged files of two rows, the
\* final table missing, ended with TypeError and no final table.
C3_Witness ==
  /\ cpc = "done" /\ dedupe_mode = "append"
  /\ Len(batches) = 2 /\ Len(batches[1][2]) = 2 /\ Len(batches[2][2]) = 2
  /\ ~TableExists(tables_before, FinalTableName)
  /\ cerr = "TypeError"
  /\ ~TableExists(tables, FinalTableName)

\* C4: a replace-mode finalize on a cache without merge-insert ends with
\* NotImplementedError, and the final table exists afterwards exactly if it
\* existed before, with the same rows.
C4_UnsupportedMerge ==
  (cpc = "done" /\ dedupe_mode = "replace" /\ ~supports_merge_insert /\ batches # <<>>) =>
    /\ cerr = "NotImplementedError"
    /\ TableExists(tables, FinalTableName) = TableExists(tables_before, FinalTableName)
    /\ TableExists(tables, FinalTableName) =>
         tables[FinalTableName] = tables_before[FinalTableName]

\* C4 (witness): a replace-mode finalize on a cache without merge-insert ended
\* with TypeError.
C4_Witness ==
  /\ cpc = "done" /\ dedupe_mode = "replace" /\ ~supports_merge_insert
  /\ batches # <<>>
  /\ cerr = "TypeError"

C6_MergeUpsert ==
  (/\ cpc = "done" /\ dedupe_mode = "replace" /\ supports_merge_insert
   /\ batches # <<>> /\ TableExists(tables_before, FinalTableName)) =>
    /\ cerr = ""
    /\ TableExists(tables, FinalTableName)
    /\ \A k \in {r[1] : r \in Rows} :
         LET staged == {p \in (1..Len(batches)) \X (1..MaxRows + 1) :
                          /\ p[2] <= Len(batches[p[1]][2])
                          /\ batches[p[1]][2][p[2]][1] = k}
             after == SelectSeq(tables[FinalTableName], LAMBDA r : r[1] = k)
             before == SelectSeq(tables_before[FinalTableName], LAMBDA r : r[1] = k)
         IN /\ Cardinality(staged) = 1 =>
                 /\ Len(after) = 1
                 /\ \E p \in staged : after[1] = batches[p[1]][2][p[2]]
            /\ staged = {} => after = before

\* C6 (witness): a replace-mode finalize on a cache with merge-insert, a staged
\* row bearing the key of a row of the final table and another value, ended
\* with TypeError and the final table as before.
C6_Witness ==
  /\ cpc = "done" /\ dedupe_mode = "replace" /\ supports_merge_insert
  /\ Len(batches) = 1 /\ batches[1][2] = <<<<1, 20>>>>
  /\ TableExists(tables_before, FinalTableName)
  /\ tables_before[FinalTableName] = <<<<1, 10>>>>
  /\ cerr = "TypeError"
  /\ tables = tables_before

(***************************************************************************)
(* Properties of concurrent _request calls (specification SpecConcurrent)  *)
(***************************************************************************)

\* C11: nothing excludes one caller of _request while another is inside: a
\* caller that has not started can always read the clock, a caller that
\* decided to refresh can always ask for a token, whatever the other caller is
\* doing; each caller refreshes exactly when the expiry and the clock it read
\* itself are within the margin, at most once.
C11_NoMutualExclusion ==
  \A t \in Callers :
    /\ callers[t].pc = "idle" => ENABLED CallerClock(t)
    /\ callers[t].pc = "token_request" => ENABLED CallerTokenRequest(t)
    /\ callers[t].refreshes <= 1
    /\ callers[t].pc \notin {"idle", "compare"} =>
         ((Refreshing(t) \/ callers[t].refreshes = 1)
            <=> NeedsRefresh(callers[t].seen_expires, callers[t].current_ts))

\* C11 (witness): both callers found the same expiry within the margin, their
\* two refreshes were under way at once, both sent their call, and one call
\* carried a token other than the one stored in jwt_token when it was sent.
C11_Witness ==
  /\ overlap
  /\ \A t \in Callers : callers[t].sent /\ callers[t].refreshes = 1
  /\ callers[1].seen_expires = callers[2].seen_expires
  /\ \E t \in Callers : callers[t].header # callers[t].stored_at_send

====
